---- MODULE Spec2Model ----
(***************************************************************************)
(* State-machine model of custom_components/localtuya/common.py:           *)
(* TuyaDevice (connection manager, status cache, refresh workaround) and   *)
(* LocalTuyaEntity (the per-entity update handler).                        *)
(*                                                                         *)
(* Every "await" of the Python code is a yield point: the code between two *)
(* awaits runs atomically on the event loop and is one action here.        *)
(* asyncio.CancelledError derives from BaseException (Python >= 3.8, the   *)
(* interpreter Home Assistant runs this integration on), so the handlers   *)
(* "except Exception" of the source do not catch a cancellation.           *)
(*                                                                         *)
(* The transport (pytuya) is not part of the modelled sources: it is an    *)
(* environment that opens a link, completes or fails the operations that   *)
(* are awaited on it, pushes status updates and reports link loss through  *)
(* the listener callbacks status_updated() and disconnected().             *)
(***************************************************************************)
EXTENDS Naturals, Sequences, FiniteSets, TLC

\* ------------------------------------------------------------- bounds
\* inputs of the environment in one behaviour: the calls of async_connect that
\* start a connection attempt, the status pushes of the transport, the calls
\* of set_dp, set_dps and status, and the removals of entities
MaxInputs == 3

\* set_dp, set_dps and status calls of the entities and of other callers that
\* are suspended in the transport at the same time
MaxCalls == 1

\* ------------------------------------------------------------- domains
\* The cache self._status is one dict keyed by datapoint index and by cid;
\* a cid is no datapoint index, so the two kinds of keys are kept apart as
\* _status.top (index -> value) and _status.sub (cid -> store).
Cids == {"26", "30"}
NoCid == "None"
Dps == {"1", "2"}
Vals == {"on", "off"}
\* python values a refresh descriptor may carry as initial value
\* ("None": CONF_ZIGBEE_REFRESH_INITIAL_VALUE not configured)
SeedVals == {"None", "False", "True"}

NoTask == 0
NoIface == 0
Tasks == 1..MaxInputs

\* position of an update for a cid since refresh was last armed for it:
\* 0 armed and nothing delivered yet, 1 first update, 2 second update,
\* OrdCap: later update, or refresh never armed
OrdCap == 3

\* ------------------------------------------------------------- dicts
\* A python dict is a function whose DOMAIN is the set of its keys.
EmptyDict == <<>>

\* dict.update(u)
Update(d, u) ==
    [k \in (DOMAIN d) \cup (DOMAIN u) |-> IF k \in DOMAIN u THEN u[k] ELSE d[k]]

\* del d[k]
Del(d, k) == [x \in (DOMAIN d) \ {k} |-> d[x]]

\* the status maps a transport reports here: one datapoint each, enough to
\* overwrite a cached key ("1") and to add one ("2")
Updates == [{"1"} -> Vals] \cup [{"2"} -> {"off"}]

\* python truthiness of a refresh initial value ("if initial_value:")
Truthy(v) == v \notin {"None", "False"}

\* ------------------------------------------------------------- configuration
Entity(id, cid, refresh, seed) ==
    [id |-> id, cid |-> cid, refresh |-> refresh,
     dp |-> "101", value |-> "True", initial_value |-> seed]

\* config_entry[CONF_ENTITIES] of the devices considered
\* without sub-devices: one entity, or entity A (index "1", unscoped) with
\* entity B (index "2", cid "26", no refresh descriptor)
PlainConfigs ==
    { <<Entity("1", NoCid, FALSE, "None")>>,
      <<Entity("1", NoCid, FALSE, "None"), Entity("2", "26", FALSE, "None")>> }

\* sub-device "30" with a refresh descriptor, for every initial value
RefreshConfigs == { <<Entity("1", "30", TRUE, seed)>> : seed \in SeedVals }

Configs == PlainConfigs \cup RefreshConfigs

VARIABLES
    config,                 \* TuyaDevice._config_entry[CONF_ENTITIES]
    is_closing,             \* TuyaDevice._is_closing
    connect_task,           \* TuyaDevice._connect_task: NoTask or a task id
    interface,              \* TuyaDevice._interface: NoIface or a transport id
    _status,                \* TuyaDevice._status: [top, sub]
    has_refresh_callbacks,  \* hasattr(self, '_refresh_callbacks')
    refresh_callbacks,      \* TuyaDevice._refresh_callbacks: cid -> closure
    task,                   \* the _make_connection coroutines, by task id
    tr,                     \* the transports, by id: none, open, lost, closed
    attempts,               \* number of tasks created so far
    closePc,                \* position of the running close(): idle, awaitTask, awaitClose
    closeTr,                \* the transport whose close() the running close() awaits
    closeResult,            \* outcome of the last close(): none, returned, raised
    cbs,                    \* refresh_callback coroutines suspended in an await
    attached,               \* entities subscribed to the device signal (all: Init is the
                            \* state after setup, when async_added_to_hass has run)
    queue,                  \* per entity: handler tasks the dispatcher created, not yet run
    local,                  \* LocalTuyaEntity._status, per entity
    branch,                 \* per entity: the branch its last handler run took
    ord,                    \* per cid: position of the last update since armed
    lastUpd,                \* arguments of the last status_updated() call
    pushes,                 \* number of unsolicited pushes so far
    calls,                  \* set_dp, set_dps and status coroutines a caller started,
                            \* suspended in their await of the transport
    ncalls                  \* number of set_dp, set_dps and status calls so far

vars == <<config, is_closing, connect_task, interface, _status,
          has_refresh_callbacks, refresh_callbacks, task, tr, attempts,
          closePc, closeTr, closeResult, cbs, attached, queue, local, branch,
          ord, lastUpd, pushes, calls, ncalls>>

Ents == DOMAIN config

\* the sub-devices of the device: the cids its entities are configured with
ConfigCids == {config[e].cid : e \in DOMAIN config} \ {NoCid}

\* the inputs of the environment so far
Inputs == attempts + pushes + ncalls + Cardinality((DOMAIN config) \ attached)

IdleTask == [pc |-> "none", i |-> 0, request_status |-> TRUE, tr |-> NoIface,
             cancel |-> FALSE, failed |-> FALSE]

\* a task is in flight from its creation until its coroutine has ended
Awaiting == {"connect", "opened", "write", "query", "pquery", "closing"}
InFlight(t) == task[t].pc \in Awaiting

\* TuyaDevice.connected
connected == interface # NoIface

Init ==
    /\ config \in Configs
    /\ is_closing = FALSE
    /\ connect_task = NoTask
    /\ interface = NoIface
    /\ _status = [top |-> EmptyDict, sub |-> EmptyDict]
    /\ has_refresh_callbacks = FALSE
    /\ refresh_callbacks = EmptyDict
    /\ task = [t \in Tasks |-> IdleTask]
    /\ tr = [t \in Tasks |-> "none"]
    /\ attempts = 0
    /\ closePc = "idle"
    /\ closeTr = NoIface
    /\ closeResult = "none"
    /\ cbs = {}
    /\ attached = DOMAIN config
    /\ queue = [e \in DOMAIN config |-> <<>>]
    /\ local = [e \in DOMAIN config |-> [ref |-> "empty"]]
    /\ branch = [e \in DOMAIN config |-> "none"]
    /\ ord = [c \in Cids |-> OrdCap]
    /\ lastUpd = [cid |-> NoCid, upd |-> EmptyDict]
    /\ pushes = 0
    /\ calls = {}
    /\ ncalls = 0

\* ------------------------------------------------------------- status cache
\* a merge that replaces the per-cid store by the update instead of updating it
MergeStatus_ReplaceStore(st, upd, cid) ==
    IF cid # NoCid
    THEN [st EXCEPT !.sub = Update(st.sub, (cid :> upd))]
    ELSE [st EXCEPT !.top = Update(st.top, upd)]

\* a merge that assigns the update instead of updating the cache with it
MergeStatus_Assign(st, upd, cid) ==
    IF cid # NoCid
    THEN [st EXCEPT !.sub = (cid :> upd)]
    ELSE [st EXCEPT !.top = upd]

\* TuyaDevice.status_updated, the merge into self._status
MergeStatus(st, upd, cid) ==
    IF cid # NoCid
    THEN IF cid \in DOMAIN st.sub
         THEN [st EXCEPT !.sub = [c \in DOMAIN st.sub |->
                                    IF c = cid THEN Update(st.sub[c], upd)
                                               ELSE st.sub[c]]]
         ELSE [st EXCEPT !.sub = Update(st.sub, (cid :> upd))]
    ELSE [st EXCEPT !.top = Update(st.top, upd)]

\* the status argument of status_updated for (upd, cid): nested under the cid
Incoming(upd, cid) ==
    IF cid # NoCid THEN [top |-> EmptyDict, sub |-> (cid :> upd)]
                   ELSE [top |-> upd, sub |-> EmptyDict]

\* a publish of the incoming status instead of the cache
PublishedPayload_Incoming(upd, cid) == [ref |-> "copy", val |-> Incoming(upd, cid)]

\* what status_updated hands to async_dispatcher_send: the dict object
\* self._status itself (a reference, so a handler that runs later reads the
\* cache as it is then)
PublishedPayload(upd, cid) == [ref |-> "_status"]

\* what disconnected hands to async_dispatcher_send: None
SentinelPayload == [ref |-> "None"]

\* a dispatcher that keeps delivering to handlers that were unsubscribed
dispatcher_send_All(q, m) == [e \in DOMAIN q |-> Append(q[e], m)]

\* async_dispatcher_send: one handler task per subscribed entity
dispatcher_send(q, m) ==
    [e \in DOMAIN q |-> IF e \in attached THEN Append(q[e], m) ELSE q[e]]

OrdAfterUpdate(o, cid) ==
    IF cid = NoCid THEN o
    ELSE [o EXCEPT ![cid] = IF @ < OrdCap THEN @ + 1 ELSE @]

OrdAfterArm(o, cid) == IF cid = NoCid THEN o ELSE [o EXCEPT ![cid] = 0]

\* TuyaDevice.status_updated(status, cid): merge, then publish the cache
status_updated(upd, cid, o) ==
    /\ _status' = MergeStatus(_status, upd, cid)
    /\ queue' = dispatcher_send(queue,
                    [payload |-> PublishedPayload(upd, cid), cause |-> cid,
                     ord |-> IF cid = NoCid THEN OrdCap ELSE OrdAfterUpdate(o, cid)[cid]])
    /\ lastUpd' = [cid |-> cid, upd |-> upd]

\* ------------------------------------------------------------- connection task
\* The loop over the entities in _make_connection, run from entity j up to
\* its next await: which await it stops in (pc), at which entity (i), the
\* request_status flag, the cid armed on the way (refresh_subdevice stores its
\* callback before it touches the interface).
RECURSIVE LoopFrom(_, _, _)
LoopFrom(j, req, ifc) ==
    IF j > Len(config)
    THEN IF req /\ ifc # NoIface
         THEN [pc |-> "pquery", i |-> j, req |-> req, arm |-> NoCid]
         ELSE [pc |-> "end", i |-> j, req |-> req, arm |-> NoCid]
    ELSE LET e == config[j] IN
         IF e.cid = NoCid THEN LoopFrom(j + 1, req, ifc)
         ELSE IF e.refresh
              THEN IF ifc = NoIface
                   THEN [pc |-> "except", i |-> j, req |-> FALSE, arm |-> e.cid]
                   ELSE [pc |-> "write", i |-> j, req |-> FALSE, arm |-> e.cid]
              ELSE IF ifc = NoIface
                   THEN LoopFrom(j + 1, FALSE, ifc)
                   ELSE [pc |-> "query", i |-> j, req |-> FALSE, arm |-> NoCid]

\* the closure refresh_subdevice stores for an entity
Closure(e) == [dp |-> e.dp, initial_value |-> e.initial_value]

\* the end of _make_connection: self._connect_task = None
Finish(t, fl) ==
    /\ task' = [task EXCEPT ![t] = [@ EXCEPT !.pc = "done", !.failed = fl]]
    /\ connect_task' = NoTask

\* the "except Exception" branch of _make_connection, entered with
\* self._interface = ifc
Except(t, ifc) ==
    /\ interface' = ifc
    /\ IF ifc # NoIface
       THEN /\ task' = [task EXCEPT ![t] = [@ EXCEPT !.pc = "closing", !.tr = ifc,
                                                     !.failed = TRUE]]
            /\ connect_task' = connect_task
       ELSE Finish(t, TRUE)

\* _make_connection from the top of the loop at entity j to its next await
Continue(t, j, req, ifc, fl, o) ==
    LET r == LoopFrom(j, req, ifc) IN
    /\ interface' = ifc
    /\ IF r.arm # NoCid
       THEN /\ has_refresh_callbacks' = TRUE
            /\ refresh_callbacks' = Update(refresh_callbacks, (r.arm :> Closure(config[r.i])))
       ELSE UNCHANGED <<has_refresh_callbacks, refresh_callbacks>>
    /\ ord' = OrdAfterArm(o, r.arm)
    /\ IF r.pc \in {"write", "query", "pquery"}
       THEN /\ task' = [task EXCEPT ![t] = [pc |-> r.pc, i |-> r.i, request_status |-> r.req,
                                            tr |-> ifc, cancel |-> FALSE, failed |-> fl]]
            /\ connect_task' = connect_task
       ELSE Finish(t, fl \/ r.pc = "except")

\* a guard that forgets the attempt in flight
ConnectGuard_NoTaskCheck == ~is_closing /\ interface = NoIface

\* a guard that lets a device connect only once in its life
ConnectGuard_Once ==
    ~is_closing /\ connect_task = NoTask /\ interface = NoIface /\ attempts = 0

\* the guard of async_connect
ConnectGuard == ~is_closing /\ connect_task = NoTask /\ interface = NoIface

\* TuyaDevice.async_connect: create the task; the task runs up to its first
\* await, pytuya.connect
async_connect ==
    /\ Inputs < MaxInputs
    /\ IF ConnectGuard
       THEN /\ attempts' = attempts + 1
            /\ connect_task' = attempts + 1
            /\ task' = [task EXCEPT ![attempts + 1] = [IdleTask EXCEPT !.pc = "connect"]]
            /\ UNCHANGED <<calls, ncalls, config, is_closing, interface, _status, has_refresh_callbacks,
                           refresh_callbacks, tr, closePc, closeTr, closeResult, cbs,
                           attached, queue, local, branch, ord, lastUpd, pushes>>
       ELSE UNCHANGED vars

\* pytuya.connect opened the link; the handle is not yet returned
TransportOpened(t) ==
    /\ task[t].pc = "connect" /\ ~task[t].cancel
    /\ tr' = [tr EXCEPT ![t] = "open"]
    /\ task' = [task EXCEPT ![t] = [@ EXCEPT !.pc = "opened"]]
    /\ UNCHANGED <<calls, ncalls, config, is_closing, connect_task, interface, _status,
                   has_refresh_callbacks, refresh_callbacks, attempts, closePc, closeTr,
                   closeResult, cbs, attached, queue, local, branch, ord, lastUpd, pushes>>

\* pytuya.connect raised: no link, or the link was lost before it returned
ConnectFailed(t) ==
    /\ ~task[t].cancel
    /\ \/ task[t].pc = "connect"
       \/ task[t].pc = "opened" /\ tr[t] = "lost"
    /\ Except(t, interface)
    /\ UNCHANGED <<calls, ncalls, config, is_closing, _status, has_refresh_callbacks, refresh_callbacks,
                   tr, attempts, closePc, closeTr, closeResult, cbs, attached, queue,
                   local, branch, ord, lastUpd, pushes>>

\* pytuya.connect returned the handle: self._interface = handle, then
\* add_dps_to_request (registered or raising), then the loop
ConnectReturn(t, registered) ==
    /\ task[t].pc = "opened" /\ ~task[t].cancel
    /\ IF registered
       THEN Continue(t, 1, TRUE, t, FALSE, ord)
       ELSE /\ Except(t, t)
            /\ UNCHANGED <<has_refresh_callbacks, refresh_callbacks, ord>>
    /\ UNCHANGED <<calls, ncalls, config, is_closing, _status, tr, attempts, closePc, closeTr,
                   closeResult, cbs, attached, queue, local, branch, lastUpd, pushes>>

\* refresh_subdevice: the awaited set_dps({dp: value}, cid) completed
TaskWriteDone(t) ==
    /\ task[t].pc = "write" /\ ~task[t].cancel
    /\ tr[task[t].tr] = "open"
    /\ Continue(t, task[t].i + 1, task[t].request_status, interface, task[t].failed, ord)
    /\ UNCHANGED <<calls, ncalls, config, is_closing, _status, tr, attempts, closePc, closeTr,
                   closeResult, cbs, attached, queue, local, branch, lastUpd, pushes>>

\* refresh_subdevice: the awaited set_dps raised
TaskWriteFailed(t) ==
    /\ task[t].pc = "write" /\ ~task[t].cancel
    /\ Except(t, interface)
    /\ UNCHANGED <<calls, ncalls, config, is_closing, _status, has_refresh_callbacks, refresh_callbacks,
                   tr, attempts, closePc, closeTr, closeResult, cbs, attached, queue,
                   local, branch, ord, lastUpd, pushes>>

\* status(cid) of the loop: the awaited query returned data
TaskQueryData(t, upd) ==
    /\ task[t].pc = "query" /\ ~task[t].cancel
    /\ tr[task[t].tr] = "open"
    /\ status_updated(upd, config[task[t].i].cid, ord)
    /\ Continue(t, task[t].i + 1, task[t].request_status, interface, task[t].failed,
                OrdAfterUpdate(ord, config[task[t].i].cid))
    /\ UNCHANGED <<calls, ncalls, config, is_closing, tr, attempts, closePc, closeTr, closeResult, cbs,
                   attached, local, branch, pushes>>

\* status(cid) of the loop: the awaited query raised or returned None; status()
\* logs it and returns
TaskQueryFailed(t) ==
    /\ task[t].pc = "query" /\ ~task[t].cancel
    /\ Continue(t, task[t].i + 1, task[t].request_status, interface, TRUE, ord)
    /\ UNCHANGED <<calls, ncalls, config, is_closing, _status, tr, attempts, closePc, closeTr,
                   closeResult, cbs, attached, queue, local, branch, lastUpd, pushes>>

\* status() for the parent device: the awaited query returned data
TaskParentQueryData(t, upd) ==
    /\ task[t].pc = "pquery" /\ ~task[t].cancel
    /\ tr[task[t].tr] = "open"
    /\ status_updated(upd, NoCid, ord)
    /\ Finish(t, task[t].failed)
    /\ UNCHANGED <<calls, ncalls, config, is_closing, interface, has_refresh_callbacks, refresh_callbacks,
                   tr, attempts, closePc, closeTr, closeResult, cbs, attached, local,
                   branch, ord, pushes>>

\* status() for the parent device: the query raised or returned None
TaskParentQueryFailed(t) ==
    /\ task[t].pc = "pquery" /\ ~task[t].cancel
    /\ Finish(t, TRUE)
    /\ UNCHANGED <<calls, ncalls, config, is_closing, interface, _status, has_refresh_callbacks,
                   refresh_callbacks, tr, attempts, closePc, closeTr, closeResult, cbs,
                   attached, queue, local, branch, ord, lastUpd, pushes>>

\* the except branch: the awaited self._interface.close() completed, then
\* self._interface = None
TaskCloseDone(t) ==
    /\ task[t].pc = "closing" /\ ~task[t].cancel
    /\ tr' = [tr EXCEPT ![task[t].tr] = IF @ = "open" THEN "closed" ELSE @]
    /\ interface' = NoIface
    /\ Finish(t, TRUE)
    /\ UNCHANGED <<calls, ncalls, config, is_closing, _status, has_refresh_callbacks, refresh_callbacks,
                   attempts, closePc, closeTr, closeResult, cbs, attached, queue, local,
                   branch, ord, lastUpd, pushes>>

\* the cancellation close() requested reaches the task at the await it is
\* suspended in: CancelledError is no Exception, nothing catches it, the
\* coroutine ends without running "self._connect_task = None"
TaskCancelled(t) ==
    /\ InFlight(t) /\ task[t].cancel
    /\ task' = [task EXCEPT ![t] = [@ EXCEPT !.pc = "cancelled"]]
    /\ UNCHANGED <<calls, ncalls, config, is_closing, connect_task, interface, _status,
                   has_refresh_callbacks, refresh_callbacks, tr, attempts, closePc,
                   closeTr, closeResult, cbs, attached, queue, local, branch, ord,
                   lastUpd, pushes>>

\* ------------------------------------------------------------- close
\* a close() that leaves the transport alone
CloseTransportGuard_Never == FALSE

\* close: "if self._interface is not None", the guard of the transport's close
CloseTransportGuard == interface # NoIface

\* TuyaDevice.close up to its first await (or to its end when nothing is
\* awaited). Awaiting a task that already ended cancelled raises at once.
close ==
    /\ closePc = "idle"
    /\ is_closing' = TRUE
    /\ IF connect_task # NoTask /\ InFlight(connect_task)
       THEN /\ task' = [task EXCEPT ![connect_task] = [@ EXCEPT !.cancel = TRUE]]
            /\ closePc' = "awaitTask"
            /\ UNCHANGED <<closeTr, closeResult>>
       ELSE IF connect_task # NoTask /\ task[connect_task].pc = "cancelled"
       THEN /\ closeResult' = "raised"
            /\ UNCHANGED <<task, closePc, closeTr>>
       ELSE IF CloseTransportGuard
       THEN /\ closePc' = "awaitClose"
            /\ closeTr' = interface
            /\ UNCHANGED <<task, closeResult>>
       ELSE /\ closeResult' = "returned"
            /\ UNCHANGED <<task, closePc, closeTr>>
    /\ UNCHANGED <<calls, ncalls, config, connect_task, interface, _status, has_refresh_callbacks,
                   refresh_callbacks, tr, attempts, cbs, attached, queue, local, branch,
                   ord, lastUpd, pushes>>

\* close resumes from "await self._connect_task": the task ended cancelled,
\* the await raises CancelledError and close() ends with it
CloseAwaitRaises(t) ==
    /\ closePc = "awaitTask"
    /\ task[t].cancel /\ task[t].pc = "cancelled"
    /\ closePc' = "idle"
    /\ closeResult' = "raised"
    /\ UNCHANGED <<calls, ncalls, config, is_closing, connect_task, interface, _status,
                   has_refresh_callbacks, refresh_callbacks, task, tr, attempts, closeTr,
                   cbs, attached, queue, local, branch, ord, lastUpd, pushes>>

\* close resumes from "await self._interface.close()" and returns
CloseTransportClosed ==
    /\ closePc = "awaitClose"
    /\ tr' = [tr EXCEPT ![closeTr] = IF @ = "open" THEN "closed" ELSE @]
    /\ closePc' = "idle"
    /\ closeResult' = "returned"
    /\ UNCHANGED <<calls, ncalls, config, is_closing, connect_task, interface, _status,
                   has_refresh_callbacks, refresh_callbacks, task, attempts, closeTr, cbs,
                   attached, queue, local, branch, ord, lastUpd, pushes>>

\* ------------------------------------------------------------- transport callbacks
\* the transport pushes a status update: listener.status_updated(status, cid)
TransportPush(t, cid, upd) ==
    /\ tr[t] = "open"
    /\ Inputs < MaxInputs
    /\ pushes' = pushes + 1
    /\ status_updated(upd, cid, ord)
    /\ ord' = OrdAfterUpdate(ord, cid)
    /\ UNCHANGED <<calls, ncalls, config, is_closing, connect_task, interface, has_refresh_callbacks,
                   refresh_callbacks, task, tr, attempts, closePc, closeTr, closeResult,
                   cbs, attached, local, branch>>

\* TuyaDevice.disconnected: publish None, drop the handle
disconnected ==
    /\ queue' = dispatcher_send(queue,
                    [payload |-> SentinelPayload, cause |-> NoCid, ord |-> OrdCap])
    /\ interface' = NoIface

\* the link of an open transport is lost: listener.disconnected()
LinkLost(t) ==
    /\ tr[t] = "open"
    /\ tr' = [tr EXCEPT ![t] = "lost"]
    /\ disconnected
    /\ UNCHANGED <<calls, ncalls, config, is_closing, connect_task, _status, has_refresh_callbacks,
                   refresh_callbacks, task, attempts, closePc, closeTr, closeResult, cbs,
                   attached, local, branch, ord, lastUpd, pushes>>

\* ------------------------------------------------------------- entities
\* the dict a payload denotes when a handler reads it
PayloadDict(p) == IF p.ref = "_status" THEN _status ELSE p.val

\* LocalTuyaEntity._status as a dict: {} or the object the handler stored,
\* which for a payload that is the cache itself stays an alias of the cache
LocalStatus(e) ==
    CASE local[e].ref = "empty" -> EmptyDict
      [] local[e].ref = "_status" -> Update(_status.top, _status.sub)
      [] local[e].ref = "sub" -> _status.sub[config[e].cid]
      [] OTHER -> local[e].val

\* LocalTuyaEntity.available
available(e) == config[e].id \in DOMAIN LocalStatus(e)

\* a handler that never looks at the pending refresh callbacks
HandlerBranch_NoIntercept(e, p) ==
    LET cid == config[e].cid IN
    IF p.ref = "None" THEN IF cid # NoCid THEN "error" ELSE "clear"
    ELSE LET d == PayloadDict(p) IN
         IF cid # NoCid
         THEN IF cid \in DOMAIN d.sub /\ DOMAIN d.sub[cid] # {} THEN "hook" ELSE "clear"
         ELSE IF DOMAIN d.top # {} \/ DOMAIN d.sub # {} THEN "hook" ELSE "clear"

\* a handler that does not filter the payload to the scope of its entity
HandlerBranch_Unscoped(e, p) ==
    IF p.ref = "None" THEN "clear"
    ELSE LET d == PayloadDict(p) IN
         IF DOMAIN d.top # {} \/ DOMAIN d.sub # {} THEN "hook" ELSE "clear"

\* which branch _update_handler of entity e takes on payload p
HandlerBranch(e, p) ==
    LET cid == config[e].cid IN
    IF cid # NoCid
    THEN IF p.ref = "None" THEN "error"
         ELSE LET d == PayloadDict(p) IN
              IF cid \in DOMAIN d.sub /\ DOMAIN d.sub[cid] # {}
              THEN IF ~has_refresh_callbacks THEN "error"
                   ELSE IF cid \in DOMAIN refresh_callbacks THEN "callback"
                   ELSE "hook"
              ELSE "clear"
    ELSE IF p.ref = "None" THEN "clear"
         ELSE LET d == PayloadDict(p) IN
              IF DOMAIN d.top # {} \/ DOMAIN d.sub # {} THEN "hook" ELSE "clear"

\* _update_handler reaches self.schedule_update_ha_state(), its last line, on
\* the branches that neither return early (the forwarded callback) nor raise
schedule_update_ha_state(b) == b \in {"hook", "clear"}

\* what "self._status = status" stores in entity e for payload p
Stored(e, p) ==
    LET cid == config[e].cid IN
    IF p.ref = "_status"
    THEN [ref |-> IF cid # NoCid THEN "sub" ELSE "_status"]
    ELSE [ref |-> "copy",
          val |-> IF cid # NoCid THEN p.val.sub[cid] ELSE Update(p.val.top, p.val.sub)]

\* refresh_callback up to its first await: del the entry, then the seed write
\* if initial_value is truthy, else status(cid)
CallbackStart(cid) ==
    LET c == refresh_callbacks[cid] IN
    /\ refresh_callbacks' = Del(refresh_callbacks, cid)
    /\ IF Truthy(c.initial_value)
       THEN IF interface = NoIface
            THEN cbs' = cbs
            ELSE cbs' = cbs \cup {[cid |-> cid, pc |-> "seed", tr |-> interface,
                                   dp |-> c.dp, initial_value |-> c.initial_value]}
       ELSE IF interface = NoIface
            THEN cbs' = cbs
            ELSE cbs' = cbs \cup {[cid |-> cid, pc |-> "query", tr |-> interface,
                                   dp |-> c.dp, initial_value |-> c.initial_value]}

\* LocalTuyaEntity._update_handler: the oldest handler task of entity e runs
update_handler(e) ==
    /\ queue[e] # <<>>
    /\ LET p == Head(queue[e]).payload
           b == HandlerBranch(e, p)
       IN /\ queue' = [queue EXCEPT ![e] = Tail(@)]
          /\ CASE b = "callback" ->
                    /\ CallbackStart(config[e].cid)
                    /\ branch' = [branch EXCEPT ![e] =
                          IF Truthy(refresh_callbacks[config[e].cid].initial_value)
                             /\ interface = NoIface THEN "error" ELSE "callback"]
                    /\ local' = local
               [] b = "hook" ->
                    /\ local' = [local EXCEPT ![e] = Stored(e, p)]
                    /\ branch' = [branch EXCEPT ![e] = "hook"]
                    /\ UNCHANGED <<refresh_callbacks, cbs>>
               [] b = "clear" ->
                    /\ local' = [local EXCEPT ![e] = [ref |-> "empty"]]
                    /\ branch' = [branch EXCEPT ![e] = "clear"]
                    /\ UNCHANGED <<refresh_callbacks, cbs>>
               [] OTHER ->
                    /\ branch' = [branch EXCEPT ![e] = "error"]
                    /\ UNCHANGED <<local, refresh_callbacks, cbs>>
    /\ UNCHANGED <<calls, ncalls, config, is_closing, connect_task, interface, _status,
                   has_refresh_callbacks, task, tr, attempts, closePc, closeTr,
                   closeResult, attached, ord, lastUpd, pushes>>

\* refresh_callback: the awaited seed write completed; status(cid) follows
CallbackSeedDone(c) ==
    /\ c \in cbs /\ c.pc = "seed"
    /\ tr[c.tr] = "open"
    /\ cbs' = IF interface = NoIface
              THEN cbs \ {c}
              ELSE (cbs \ {c}) \cup {[c EXCEPT !.pc = "query", !.tr = interface]}
    /\ UNCHANGED <<calls, ncalls, config, is_closing, connect_task, interface, _status,
                   has_refresh_callbacks, refresh_callbacks, task, tr, attempts, closePc,
                   closeTr, closeResult, attached, queue, local, branch, ord, lastUpd,
                   pushes>>

\* refresh_callback: the awaited seed write raised; neither refresh_callback
\* nor the _update_handler that awaits it catches it, so the handler task of
\* the entity scoped to the cid ends with the exception
CallbackSeedFailed(c) ==
    /\ c \in cbs /\ c.pc = "seed"
    /\ cbs' = cbs \ {c}
    /\ branch' = [e \in DOMAIN branch |->
                    IF config[e].cid = c.cid THEN "error" ELSE branch[e]]
    /\ UNCHANGED <<calls, ncalls, config, is_closing, connect_task, interface, _status,
                   has_refresh_callbacks, refresh_callbacks, task, tr, attempts, closePc,
                   closeTr, closeResult, attached, queue, local, ord, lastUpd,
                   pushes>>

\* refresh_callback: the query of status(cid) returned data
CallbackQueryData(c, upd) ==
    /\ c \in cbs /\ c.pc = "query"
    /\ tr[c.tr] = "open"
    /\ cbs' = cbs \ {c}
    /\ status_updated(upd, c.cid, ord)
    /\ ord' = OrdAfterUpdate(ord, c.cid)
    /\ UNCHANGED <<calls, ncalls, config, is_closing, connect_task, interface, has_refresh_callbacks,
                   refresh_callbacks, task, tr, attempts, closePc, closeTr, closeResult,
                   attached, local, branch, pushes>>

\* refresh_callback: the query of status(cid) raised or returned None
CallbackQueryFailed(c) ==
    /\ c \in cbs /\ c.pc = "query"
    /\ cbs' = cbs \ {c}
    /\ UNCHANGED <<calls, ncalls, config, is_closing, connect_task, interface, _status,
                   has_refresh_callbacks, refresh_callbacks, task, tr, attempts, closePc,
                   closeTr, closeResult, attached, queue, local, branch, ord, lastUpd,
                   pushes>>

\* Home Assistant removes entity e: the callback registered with
\* async_on_remove unsubscribes its handler from the device signal. Handler
\* tasks the dispatcher created before are not withdrawn.
Detach(e) ==
    /\ e \in attached
    /\ Inputs < MaxInputs
    /\ attached' = attached \ {e}
    /\ UNCHANGED <<calls, ncalls, config, is_closing, connect_task, interface, _status,
                   has_refresh_callbacks, refresh_callbacks, task, tr, attempts, closePc,
                   closeTr, closeResult, cbs, queue, local, branch, ord, lastUpd, pushes>>

\* ------------------------------------------------------------- writes and queries
\* the cids the callers pass: an entity passes its own scope (self._cid)
CallCids == {config[e].cid : e \in DOMAIN config}

\* the "if self._interface is not None" of set_dp, set_dps and status
ForwardGuard == interface # NoIface

\* set_dp, set_dps or status up to its await: the call is forwarded to the
\* transport self._interface names; without a handle an error is logged and
\* the call returns
Forward(op, cid) ==
    /\ Cardinality(calls) < MaxCalls
    /\ Inputs < MaxInputs
    /\ ncalls' = ncalls + 1
    /\ calls' = IF ForwardGuard
                THEN calls \cup {[op |-> op, cid |-> cid, tr |-> interface]}
                ELSE calls
    /\ UNCHANGED <<config, is_closing, connect_task, interface, _status,
                   has_refresh_callbacks, refresh_callbacks, task, tr, attempts, closePc,
                   closeTr, closeResult, cbs, attached, queue, local, branch, ord,
                   lastUpd, pushes>>

\* TuyaDevice.set_dp(state, dp_index, cid)
set_dp(cid) == Forward("set_dp", cid)

\* TuyaDevice.set_dps(states, cid)
set_dps(cid) == Forward("set_dps", cid)

\* TuyaDevice.status(cid), called from outside the connection attempt
status(cid) == Forward("status", cid)

\* set_dp / set_dps: the awaited write completed, or it raised and the
\* exception was logged; the call returns
WriteReturn(c) ==
    /\ c \in calls /\ c.op \in {"set_dp", "set_dps"}
    /\ calls' = calls \ {c}
    /\ UNCHANGED <<ncalls, config, is_closing, connect_task, interface, _status,
                   has_refresh_callbacks, refresh_callbacks, task, tr, attempts, closePc,
                   closeTr, closeResult, cbs, attached, queue, local, branch, ord,
                   lastUpd, pushes>>

\* status: the awaited query returned data
QueryData(c, upd) ==
    /\ c \in calls /\ c.op = "status"
    /\ tr[c.tr] = "open"
    /\ calls' = calls \ {c}
    /\ status_updated(upd, c.cid, ord)
    /\ ord' = OrdAfterUpdate(ord, c.cid)
    /\ UNCHANGED <<ncalls, config, is_closing, connect_task, interface,
                   has_refresh_callbacks, refresh_callbacks, task, tr, attempts, closePc,
                   closeTr, closeResult, cbs, attached, local, branch, pushes>>

\* status: the awaited query raised or returned None; logged, the call returns
QueryFailed(c) ==
    /\ c \in calls /\ c.op = "status"
    /\ calls' = calls \ {c}
    /\ UNCHANGED <<ncalls, config, is_closing, connect_task, interface, _status,
                   has_refresh_callbacks, refresh_callbacks, task, tr, attempts, closePc,
                   closeTr, closeResult, cbs, attached, queue, local, branch, ord,
                   lastUpd, pushes>>

\* ------------------------------------------------------------- read accessors
\* python values an accessor is called with: an int, a str or None
PyInt(n) == [t |-> "int", n |-> n]
PyStr(x) == [t |-> "str", s |-> x]
PyNone == [t |-> "NoneType"]

\* the datapoint indices asked for: as int, as str, and None
Indices == {PyInt(1), PyInt(2), PyInt(3), PyStr("1"), PyStr("101"), PyNone}

\* str(x) for the values above
str(x) ==
    CASE x.t = "str" -> x.s
      [] x.t = "NoneType" -> "None"
      [] x.t = "int" -> <<"1", "2", "3">>[x.n]

\* the config items an accessor is asked for, and LocalTuyaEntity._config:
\* the item "id" is set, the others are not
ConfItems == {"id", "target_temperature_dp"}
EntityConfig(e) == ("id" :> PyStr(config[e].id))

\* a lookup by subscript, which raises on an absent key
dps_Subscript(e, dp_index) ==
    IF str(dp_index) \in DOMAIN LocalStatus(e)
    THEN LocalStatus(e)[str(dp_index)] ELSE "KeyError"

\* LocalTuyaEntity.dps: self._status.get(str(dp_index)), None when absent
dps(e, dp_index) ==
    IF str(dp_index) \in DOMAIN LocalStatus(e)
    THEN LocalStatus(e)[str(dp_index)] ELSE "None"

\* LocalTuyaEntity.dps_conf: self.dps(self._config.get(conf_item))
dps_conf(e, conf_item) ==
    dps(e, IF conf_item \in DOMAIN EntityConfig(e) THEN EntityConfig(e)[conf_item]
                                                   ELSE PyNone)

\* ------------------------------------------------------------- specification
Next ==
    \/ async_connect
    \/ \E t \in Tasks : TransportOpened(t)
    \/ \E t \in Tasks : ConnectFailed(t)
    \/ \E t \in Tasks, registered \in BOOLEAN : ConnectReturn(t, registered)
    \/ \E t \in Tasks : TaskWriteDone(t)
    \/ \E t \in Tasks : TaskWriteFailed(t)
    \/ \E t \in Tasks, upd \in Updates : TaskQueryData(t, upd)
    \/ \E t \in Tasks : TaskQueryFailed(t)
    \/ \E t \in Tasks, upd \in Updates : TaskParentQueryData(t, upd)
    \/ \E t \in Tasks : TaskParentQueryFailed(t)
    \/ \E t \in Tasks : TaskCloseDone(t)
    \/ \E t \in Tasks : TaskCancelled(t)
    \/ close
    \/ \E t \in Tasks : CloseAwaitRaises(t)
    \/ CloseTransportClosed
    \/ \E t \in Tasks, cid \in ConfigCids \cup {NoCid}, upd \in Updates : TransportPush(t, cid, upd)
    \/ \E t \in Tasks : LinkLost(t)
    \/ \E e \in Ents : update_handler(e)
    \/ \E c \in cbs : CallbackSeedDone(c)
    \/ \E c \in cbs : CallbackSeedFailed(c)
    \/ \E c \in cbs, upd \in Updates : CallbackQueryData(c, upd)
    \/ \E c \in cbs : CallbackQueryFailed(c)

Spec == Init /\ [][Next]_vars

\* the device with entities that are removed while it runs
NextDetach ==
    \/ Next
    \/ \E e \in Ents : Detach(e)

SpecDetach == Init /\ [][NextDetach]_vars

\* the device with callers that write and query while it runs
NextCalls ==
    \/ Next
    \/ \E cid \in CallCids : set_dp(cid)
    \/ \E cid \in CallCids : set_dps(cid)
    \/ \E cid \in CallCids \cup {NoCid} : status(cid)
    \/ \E c \in calls : WriteReturn(c)
    \/ \E c \in calls, upd \in Updates : QueryData(c, upd)
    \/ \E c \in calls : QueryFailed(c)

SpecCalls == Init /\ [][NextCalls]_vars

\* ------------------------------------------------------------- properties
\* the dict of scope cid in a cache value: the top level, or the cid's store
SubDict(st, cid) ==
    IF cid = NoCid THEN st.top
    ELSE IF cid \in DOMAIN st.sub THEN st.sub[cid] ELSE EmptyDict

\* entity e ran a handler task in this step
Handled(e) == queue[e] # <<>> /\ queue'[e] = Tail(queue[e])

\* a snapshot was published to entity e in this step
Published(e) ==
    /\ Len(queue'[e]) > Len(queue[e])
    /\ queue'[e][Len(queue'[e])].payload.ref # "None"

\* close() has been called and is over, whether it returned or raised
CloseCompleted == closePc = "idle" /\ closeResult # "none"

\* C1: connect() is a no-op whenever the device is connected, an attempt is
\* in flight or close() has been called: no step starts a connection attempt
\* from such a state; at most one attempt is in flight at any time, and at
\* most one transport is open or being opened.
C1_NoSecondAttempt ==
    /\ [](/\ Cardinality({t \in Tasks : InFlight(t)}) <= 1
          /\ Cardinality({t \in Tasks : tr[t] = "open" \/ task[t].pc = "connect"}) <= 1)
    /\ [][(is_closing \/ interface # NoIface \/ connect_task # NoTask
             \/ \E t \in Tasks : InFlight(t) \/ tr[t] = "open")
          => (attempts' = attempts /\ \A t \in Tasks : task[t].pc = "none" => task'[t].pc = "none")]_vars

\* C1 witness: a second attempt is in flight on an open transport after the
\* first one ended, and connect() can be called again
C1_Witness ==
    /\ attempts = 2 /\ task[1].pc = "done" /\ InFlight(2) /\ tr[2] = "open"
    /\ attempts + pushes < MaxInputs

\* C2: close() never raises to its caller, and once a close() is over no
\* connection attempt is in flight or left in the connect guard.
C2_CloseNeverRaises ==
    /\ closeResult # "raised"
    /\ CloseCompleted => (connect_task = NoTask /\ \A t \in Tasks : ~InFlight(t))

\* C3: once a close() is over, also one called while an attempt was in flight,
\* no transport this device opened remains open.
C3_CloseClosesTransport == CloseCompleted => \A t \in Tasks : tr[t] # "open"

C5_FailedAttemptCleansUp ==
    [][\A t \in Tasks :
         (task[t].pc # "done" /\ task'[t].pc = "done" /\ task'[t].failed)
         => (interface' = NoIface /\ tr'[t] # "open" /\ connect_task' = NoTask
             /\ attempts' = attempts)]_vars

\* C6: every status update overwrites in the cache exactly the keys it holds,
\* in the store of its cid (created if absent) or at top level, and leaves
\* every other key and every other store as they were.
C6_MergeOverwritesOnlyUpdateKeys ==
    [][(_status' # _status \/ \E e \in Ents : Published(e))
       => LET c == lastUpd'.cid
              u == lastUpd'.upd
              old == SubDict(_status, c)
              new == SubDict(_status', c)
          IN /\ DOMAIN new = DOMAIN old \cup DOMAIN u
             /\ \A k \in DOMAIN u : new[k] = u[k]
             /\ \A k \in DOMAIN old \ DOMAIN u : new[k] = old[k]
             /\ IF c = NoCid
                THEN _status'.sub = _status.sub
                ELSE /\ _status'.top = _status.top
                     /\ DOMAIN _status'.sub = DOMAIN _status.sub \cup {c}
                     /\ \A x \in DOMAIN _status.sub \ {c} :
                            _status'.sub[x] = _status.sub[x]]_vars

\* C6 witness: {1: on} then {2: off} for cid "26" left both in its store
C6_Witness ==
    /\ "26" \in DOMAIN _status.sub
    /\ _status.sub["26"] = ("1" :> "on" @@ "2" :> "off")
    /\ lastUpd = [cid |-> "26", upd |-> ("2" :> "off")]

\* C7: every snapshot handed to a subscriber is the status cache itself, taken
\* after the update that caused the publish was merged into it.
C7_PublishesFullCache ==
    [][\A e \in Ents : Published(e)
         => LET m == queue'[e][Len(queue'[e])]
                u == lastUpd'.upd
                new == SubDict(_status', lastUpd'.cid)
            IN /\ m.payload.ref = "_status"
               /\ m.cause = lastUpd'.cid
               /\ \A k \in DOMAIN u : k \in DOMAIN new /\ new[k] = u[k]]_vars

\* C7 witness: a snapshot is waiting for a subscriber while the cache holds
\* more than the one key of the update that caused it
C7_Witness ==
    \E e \in Ents :
        /\ queue[e] # <<>>
        /\ queue[e][Len(queue[e])].payload.ref = "_status"
        /\ Cardinality(DOMAIN lastUpd.upd) = 1
        /\ Cardinality(DOMAIN _status.top)
             + Cardinality(DOMAIN SubDict(_status, "26"))
             + Cardinality(DOMAIN SubDict(_status, "30")) >= 2

\* C8: the handler of the first update for cid X after refresh was armed does
\* not invoke the status hook of the entity scoped to X and leaves X not
\* pending; the handler of the second update for X invokes the hook.
C8_FirstUpdateSuppressed ==
    [][\A e \in Ents :
         LET x == config[e].cid
             m == Head(queue[e])
         IN (x # NoCid /\ Handled(e) /\ m.cause = x /\ ord[x] >= m.ord)
            => /\ m.ord = 1 => (branch'[e] # "hook" /\ x \notin DOMAIN refresh_callbacks')
               /\ m.ord = 2 => branch'[e] = "hook"]_vars

\* the step delivers to the device the first update for cid x since refresh
\* was armed for it, while the callback is pending
TriggeringUpdate(x) ==
    x \in DOMAIN refresh_callbacks /\ ord[x] = 0 /\ ord'[x] = 1

C10_SeedWriteBeforeQuery ==
    [][\A x \in Cids :
         /\ (/\ x \notin DOMAIN refresh_callbacks /\ x \in DOMAIN refresh_callbacks'
             /\ interface' # NoIface)
            => \E t \in Tasks : /\ task'[t].pc = "write"
                                /\ config[task'[t].i].cid = x
         /\ (/\ x \in DOMAIN refresh_callbacks /\ x \notin DOMAIN refresh_callbacks'
             /\ refresh_callbacks[x].initial_value # "None" /\ interface # NoIface)
            => \E r \in cbs' : r.cid = x /\ r.pc = "seed"
         /\ \A r \in cbs' \ cbs :
              (r.cid = x /\ r.pc = "query" /\ r.initial_value # "None")
              => \E s \in cbs : s.cid = x /\ s.pc = "seed"]_vars

\* C11: every subscriber gets the sentinel that disconnected() publishes, and
\* the handler of every subscriber, cid-scoped or not, that handles the
\* sentinel clears the local state, leaves the entity unavailable and does not
\* invoke the status hook (nor raise).
C11_SentinelClearsEverySubscriber ==
    [][/\ (\E t \in Tasks : tr[t] = "open" /\ tr'[t] = "lost")
            => \A e \in attached :
                   /\ Len(queue'[e]) = Len(queue[e]) + 1
                   /\ queue'[e][Len(queue'[e])].payload = SentinelPayload
       /\ \A e \in Ents :
            (Handled(e) /\ Head(queue[e]).payload = SentinelPayload)
            => /\ branch'[e] = "clear"
               /\ local'[e] = [ref |-> "empty"]
               /\ ~available(e)']_vars

\* C12: a cid-scoped entity that handles a snapshot holding data for its cid
\* while no refresh callback is pending for the cid (also when refresh was
\* never armed on the device) stores the sub-map of its cid as its local state
\* and invokes the status hook, without raising.
C12_ScopedUpdateReachesHook ==
    [][\A e \in Ents :
         LET x == config[e].cid
             p == Head(queue[e]).payload
         IN (/\ Handled(e) /\ x # NoCid /\ p # SentinelPayload
             /\ SubDict(PayloadDict(p), x) # EmptyDict
             /\ x \notin DOMAIN refresh_callbacks)
            => /\ branch'[e] = "hook"
               /\ local'[e] = Stored(e, p)
               /\ LocalStatus(e)' = SubDict(_status, x)]_vars

\* C13: no exception raised by a transport call escapes: a handler task that
\* is suspended in a transport call issued by the refresh callback (the seed
\* write, the follow-up query) never ends with an exception, and a failing
\* call of the connection attempt never leaves the attempt unsettled.
C13_TransportErrorsContained ==
    [][/\ \A e \in Ents : (~Handled(e) /\ branch'[e] = "error") => branch[e] = "error"
       /\ \A t \in Tasks : (InFlight(t) /\ ~task[t].cancel /\ ~InFlight(t)')
                               => task'[t].pc = "done"]_vars

C15_ParentQueryIffNoRefresh ==
    [][\A t \in Tasks :
         (/\ task[t].pc \in {"opened", "write", "query"}
          /\ task'[t].pc \in {"pquery", "done"}
          /\ ~task'[t].failed /\ interface' # NoIface)
         => (task'[t].pc = "pquery" <=> ~\E j \in DOMAIN config : config[j].refresh)]_vars

\* C16: the pending refresh callback of a cid X is removed only by the
\* handling of the first update for X since it was armed: never by the
\* handling of a publish that an update for another cid or for the parent
\* device caused.
C16_PendingClearedOnlyByOwnUpdate ==
    [][\A x \in Cids :
         (x \in DOMAIN refresh_callbacks /\ x \notin DOMAIN refresh_callbacks')
         => \E e \in Ents : /\ config[e].cid = x /\ Handled(e)
                            /\ Head(queue[e]).cause = x
                            /\ Head(queue[e]).ord = 1]_vars

\* C17: a link loss while the attempt is in flight publishes the sentinel and
\* discards the handle, and when that attempt has settled the device does not
\* hold the handle of the lost link: it is disconnected.
C17_LinkLossMidConnect ==
    [][\A t \in Tasks :
         /\ (InFlight(t) /\ tr[t] = "open" /\ tr'[t] = "lost")
            => /\ interface' = NoIface
               /\ \A e \in attached :
                      queue'[e] = Append(queue[e], queue'[e][Len(queue'[e])])
                      /\ queue'[e][Len(queue'[e])].payload = SentinelPayload
         /\ (InFlight(t) /\ ~task[t].cancel /\ ~InFlight(t)' /\ tr'[t] = "lost")
            => (task'[t].pc = "done" /\ interface' = NoIface)]_vars

\* C18: an attempt starts only in a step that is a call of connect(), never
\* in a link loss or in the step that ends a failed attempt; whenever the
\* device is disconnected, not closing and without an attempt in flight,
\* connect() is not refused; and every attempt, the first and the later ones,
\* runs the same establish sequence from its start, arming refresh again.
C18_ReconnectOnlyOnRequest ==
    /\ []((interface = NoIface /\ ~is_closing /\ \A t \in Tasks : ~InFlight(t))
            => ConnectGuard)
    /\ [][attempts' # attempts
            => /\ ConnectGuard /\ attempts' = attempts + 1
               /\ connect_task' = attempts' /\ task'[attempts'].pc = "connect"
               /\ tr' = tr /\ queue' = queue /\ interface' = interface
               /\ \A t \in Tasks \ {attempts'} : task'[t] = task[t]]_vars
    /\ [][\A t \in Tasks :
            (task[t].pc = "opened" /\ task'[t].pc \in {"write", "query", "pquery"})
            => /\ task'[t].pc = LoopFrom(1, TRUE, t).pc
               /\ task'[t].i = LoopFrom(1, TRUE, t).i
               /\ task'[t].pc = "write"
                    => /\ config[task'[t].i].cid \in DOMAIN refresh_callbacks'
                       /\ ord'[config[task'[t].i].cid] = 0]_vars

\* C18 witness: after the first attempt ended, a second one, started by
\* connect(), has armed refresh for "30" again and awaits the trigger write
C18_Witness ==
    /\ attempts = 2 /\ task[1].pc = "done" /\ task[2].pc = "write"
    /\ "30" \in DOMAIN refresh_callbacks /\ ord["30"] = 0 /\ tr[1] = "lost"

\* C19: no step removes a key from the status cache: not a top-level key, not
\* a cid's store, not a key of a store.
C19_CacheNeverShrinks ==
    [][/\ DOMAIN _status.top \subseteq DOMAIN _status'.top
       /\ \A c \in DOMAIN _status.sub :
              /\ c \in DOMAIN _status'.sub
              /\ DOMAIN _status.sub[c] \subseteq DOMAIN _status'.sub[c]]_vars

\* C19 witness: after a link loss the entity has handled the sentinel and is
\* unavailable, while the cache still holds what was reported before
C19_Witness ==
    /\ \E t \in Tasks : tr[t] = "lost"
    /\ _status.top # EmptyDict
    /\ \E e \in Ents : /\ branch[e] = "clear" /\ queue[e] = <<>>
                       /\ ~available(e) /\ config[e].id \in DOMAIN _status.top

\* C20: every run of the update handler that finishes without raising,
\* whichever branch it takes (the forwarded refresh callback included), has
\* scheduled a state refresh of its entity.
C20_HandlerAlwaysSchedulesRefresh ==
    [][\A e \in Ents :
         (Handled(e) /\ branch'[e] # "error") => schedule_update_ha_state(branch'[e])]_vars

\* C21: a cid-scoped entity that handles a snapshot without an entry for its
\* cid (a flat snapshot in particular) clears its local state, is unavailable
\* afterwards and does not invoke its status hook; an unscoped entity that
\* handles a (non-empty) snapshot takes the whole snapshot as its local state
\* and invokes its hook.
C21_FlatPayloadClearsScoped ==
    [][\A e \in Ents :
         LET x == config[e].cid
             p == Head(queue[e]).payload
             d == PayloadDict(p)
         IN (/\ Handled(e) /\ p # SentinelPayload
             /\ DOMAIN d.top \cup DOMAIN d.sub # {})
            => IF x # NoCid
               THEN x \notin DOMAIN d.sub
                    => /\ branch'[e] = "clear"
                       /\ local'[e] = [ref |-> "empty"]
                       /\ LocalStatus(e)' = EmptyDict
                       /\ ~available(e)'
               ELSE /\ branch'[e] = "hook"
                    /\ LocalStatus(e)' = Update(d.top, d.sub)]_vars

\* C21 witness: the flat snapshot {"1": on, "2": off} was handled by both
\* entities: A (unscoped) holds it and is available, B (cid "26") is cleared
\* and unavailable
C21_Witness ==
    /\ Len(config) = 2
    /\ _status.top = ("1" :> "on" @@ "2" :> "off") /\ _status.sub = EmptyDict
    /\ queue[1] = <<>> /\ queue[2] = <<>>
    /\ branch[1] = "hook" /\ LocalStatus(1) = _status.top /\ available(1)
    /\ branch[2] = "clear" /\ LocalStatus(2) = EmptyDict /\ ~available(2)

Called == ncalls' # ncalls

\* C23: a write (set_dp, set_dps) and a query that fails or returns no data
\* leave the status cache and the local state of every entity unchanged and
\* publish nothing; without a transport handle a call forwards nothing to a
\* transport; and once close() has returned the device does not report
\* connected and no later call is forwarded to the closed transport.
C23_CallsAreFramedAndStopAtClose ==
    /\ [][(\/ Called
           \/ \E c \in calls \ calls' : c.op \in {"set_dp", "set_dps"} \/ tr[c.tr] # "open"
           \/ \E t \in Tasks : /\ task[t].pc \in {"query", "pquery"}
                               /\ ~task[t].failed /\ task'[t].failed)
            => (_status' = _status /\ local' = local /\ queue' = queue)]_vars
    /\ [][(Called /\ interface = NoIface) => calls' = calls]_vars
    /\ [](closeResult = "returned" => ~connected)
    /\ [][(Called /\ closeResult = "returned")
            => \A c \in calls' \ calls : tr[c.tr] # "closed"]_vars

====
